---- MODULE Spec2Model ----
(***************************************************************************)
(* Model of the health-check engine of PainelInovatus: monitor.py (history *)
(* store, cycle, background loop, ensure_started) and the serving layer's  *)
(* _get_current_data of app.py.                                            *)
(*                                                                         *)
(* Threads: callers of ensure_started(), the monitor_loop threads they     *)
(* start, and request threads running _get_current_data().  A cycle        *)
(* (get_status_data) is run by a monitor_loop thread and, through the      *)
(* last branch of _get_current_data, by a request thread.                  *)
(***************************************************************************)
EXTENDS Integers, Sequences, FiniteSets, TLC

(* ---- bounds of the model ---- *)
\* capacity of the rolling buffers; monitor.py:21 sets 100, the model runs a
\* small capacity so that cycles past the capacity are reached
MAX_HISTORY_LEN == 2
\* number of cycles (calls of get_status_data) begun by all threads together,
\* in the serving process and in the start-up race
MaxCycles == 3
MaxStartCycles == 2
\* number of ensure_started() calls begun by all callers together
MaxCalls == 2
\* number of cycles begun by all threads together where the probes are
\* followed one by one
MaxPoolCycles == 2
\* workers of a cycle's ThreadPoolExecutor; monitor.py:101 sets 8 for 28
\* sites, the model runs fewer workers than sites so that probes queue
max_workers == 1
\* number of cycles begun by all threads together where the threads are
\* scheduled fairly
MaxLiveCycles == 2

(* ---- program constants ---- *)
CHECK_INTERVAL == 5
OUTAGE_THRESHOLD == 5

SITES == {"A", "B"}

Callers == {"c1", "c2"}
Loops == {"m1", "m2"}
Readers == {"r1"}
CycleThreads == Loops \cup Readers

\* Python's {} : the dict with no keys
EmptyDict == [k \in {} |-> 0]
\* dict.get(key) is not None
HasKey(d, key) == key \in DOMAIN d

\* the literal returned at the end of _get_current_data
EmptySnapshot ==
    [timestamps |-> <<>>, data |-> EmptyDict, status_colors |-> EmptyDict,
     quedas |-> <<>>, oscilacoes |-> <<>>]

VARIABLES
    history,               \* monitor.history: site -> list of 0/1
    timestamps,            \* monitor.timestamps
    offline_time,          \* monitor.offline_time: site -> seconds
    oscillation_detected,  \* monitor.oscillation_detected: site -> bool
    lock,                  \* monitor.lock: "free" or the thread holding it
    LATEST_DATA,           \* monitor.LATEST_DATA (module global, rebound by the loop)
    _thread_started,       \* monitor._thread_started
    app_LATEST_DATA,       \* app.LATEST_DATA: the object bound by "from monitor import"
    _local_latest,         \* app._local_latest
    running,               \* the monitor_loop threads that were started
    pc,                    \* position of every thread
    current_time,          \* get_status_data local, per thread
    status_dict,           \* get_status_data local, per thread: list of <<nome, status>>
    new_data,              \* value returned by get_status_data, per thread
    result,                \* value returned by _get_current_data, per reader
    clock,                 \* the wall clock as read by datetime.now
    budget,                \* number of cycles that may still begin
    calls_left,            \* number of ensure_started calls that may still begin
    updates,               \* number of history updates completed
    appended,              \* log: every sample ever appended, per site
    appended_ts,           \* log: every timestamp ever appended
    at_begin,              \* log: per reader, what held when its call began and since
    pending,               \* per thread: the executor's queue, probes submitted and not begun
    active,                \* per thread: the sites whose check_site runs in a worker
    probe_resp,            \* log: per thread and site, what the site answered in this cycle
    probed                 \* log: per thread and site, the probes begun in this cycle

vars == <<history, timestamps, offline_time, oscillation_detected, lock,
          LATEST_DATA, _thread_started, app_LATEST_DATA, _local_latest, running,
          pc, current_time, status_dict, new_data, result, clock, budget,
          calls_left, updates, appended, appended_ts, at_begin,
          pending, active, probe_resp, probed>>

(* ======================= pure helpers of monitor.py ===================== *)

\* variants of Evict: the test is ">" ; the pop is "pop()"
Evict_OffByOne(buf) == IF Len(buf) > MAX_HISTORY_LEN THEN Tail(buf) ELSE buf
Evict_PopLast(buf) ==
    IF Len(buf) >= MAX_HISTORY_LEN THEN SubSeq(buf, 1, Len(buf) - 1) ELSE buf

\* "if len(buf) >= MAX_HISTORY_LEN: buf.pop(0)"
Evict(buf) == IF Len(buf) >= MAX_HISTORY_LEN THEN Tail(buf) ELSE buf

\* variant of NextOfflineTime: the counter counts cycles, not seconds
NextOfflineTime_CountCycles(off, status) ==
    IF status = 0 THEN off + 1 ELSE 0

\* variant of NextOfflineTime: the "else" branch is missing
NextOfflineTime_NoReset(off, status) ==
    IF status = 0 THEN off + CHECK_INTERVAL ELSE off

\* "offline_time[nome] += CHECK_INTERVAL" when down, "= 0" when up
NextOfflineTime(off, status) ==
    IF status = 0 THEN off + CHECK_INTERVAL ELSE 0

\* variant of Oscillated: "prev is not None" is missing
Oscillated_NoNoneTest(buf, status) == buf = <<>> \/ buf[Len(buf)] # status

\* "prev is not None and prev != status"; buf is the buffer after the
\* eviction and before the append, prev its last element if it has one
Oscillated(buf, status) == buf # <<>> /\ buf[Len(buf)] # status

\* variant of IsOutage: the test is ">"
IsOutage_Strict(off) == off > OUTAGE_THRESHOLD

\* "if offline_time[nome] >= 5"
IsOutage(off) == off >= OUTAGE_THRESHOLD

\* variant of get_status_color: "data[-1] == 1" is tested before the change
get_status_color_UpFirst(data) ==
    IF data # <<>> /\ data[Len(data)] = 1 THEN "green"
    ELSE IF Len(data) >= 2 /\ data[Len(data)] # data[Len(data) - 1] THEN "yellow"
    ELSE "red"

\* variant of get_status_color: the first test is "len(data) <= 2"
get_status_color_ShortTest(data) ==
    IF Len(data) <= 2
    THEN IF data # <<>> /\ data[Len(data)] = 1 THEN "green" ELSE "red"
    ELSE IF data[Len(data)] # data[Len(data) - 1] THEN "yellow"
    ELSE IF data[Len(data)] = 1 THEN "green" ELSE "red"

get_status_color(data) ==
    IF Len(data) < 2
    THEN IF data # <<>> /\ data[Len(data)] = 1 THEN "green" ELSE "red"
    ELSE IF data[Len(data)] # data[Len(data) - 1] THEN "yellow"
    ELSE IF data[Len(data)] = 1 THEN "green" ELSE "red"

\* variant of StoreStep: the flap test is not made afresh in each iteration,
\* a flap found for an earlier site of the cycle stays set for the later ones
StoreStep_StickyFlap(st, nome, status, now) ==
    LET buf == Evict(st.history[nome])
        off == NextOfflineTime(st.offline_time[nome], status)
        osc == Oscillated(buf, status) \/ st.oscilacoes # <<>>
    IN  [history |-> [st.history EXCEPT ![nome] = Append(buf, status)],
         offline_time |-> [st.offline_time EXCEPT ![nome] = off],
         oscillation_detected |-> [st.oscillation_detected EXCEPT ![nome] = osc],
         oscilacoes |->
            IF osc
            THEN Append(st.oscilacoes,
                        [data |-> now, nome |-> nome, tempo |-> "-", tipo |-> "Oscilacao"])
            ELSE st.oscilacoes,
         quedas |->
            IF IsOutage(off)
            THEN Append(st.quedas,
                        [data |-> now, nome |-> nome, tempo |-> off, tipo |-> "Queda"])
            ELSE st.quedas]

\* one iteration of "for nome, status in status_dict.items()" on the store
\* st = [history, offline_time, oscillation_detected, quedas, oscilacoes]
StoreStep(st, nome, status, now) ==
    LET buf == Evict(st.history[nome])
        off == NextOfflineTime(st.offline_time[nome], status)
        osc == Oscillated(buf, status)
    IN  [history |-> [st.history EXCEPT ![nome] = Append(buf, status)],
         offline_time |-> [st.offline_time EXCEPT ![nome] = off],
         oscillation_detected |-> [st.oscillation_detected EXCEPT ![nome] = osc],
         oscilacoes |->
            IF osc
            THEN Append(st.oscilacoes,
                        [data |-> now, nome |-> nome, tempo |-> "-", tipo |-> "Oscilacao"])
            ELSE st.oscilacoes,
         quedas |->
            IF IsOutage(off)
            THEN Append(st.quedas,
                        [data |-> now, nome |-> nome, tempo |-> off, tipo |-> "Queda"])
            ELSE st.quedas]

\* the whole loop over status_dict.items(), in the dict's insertion order:
\* the iteration of the first item gives the store s, on which the loop goes
\* on with the other items
RECURSIVE StoreLoop(_, _, _)
StoreLoop(st, items, now) ==
    IF items = <<>> THEN st
    ELSE CHOOSE r \in {StoreLoop(s, Tail(items), now) :
                          s \in {StoreStep(st, Head(items).nome, Head(items).status, now)}} :
            TRUE

\* the dict returned by get_status_data, built from the store after the loop
Snapshot(ts, st) ==
    [timestamps |-> ts,
     data |-> [n \in SITES |-> st.history[n]],
     status_colors |-> [n \in SITES |-> get_status_color(st.history[n])],
     quedas |-> st.quedas,
     oscilacoes |-> st.oscilacoes]

\* variant of LatestAfterError: the handler clears the cache
LatestAfterError_Clear(latest) == EmptyDict

\* what the "except Exception" of _background_loop leaves in LATEST_DATA
LatestAfterError(latest) == latest

\* every order in which the probes of a cycle can complete
Orders == {o \in [1..Cardinality(SITES) -> SITES] :
              \A i, j \in 1..Cardinality(SITES) : i # j => o[i] # o[j]}

\* the log of the answers of a cycle in which no probe has finished
NoResponses == [n \in SITES |-> "none"]

\* the log of a reader that is not in a call
NoCall == [published |-> FALSE, no_cycle |-> FALSE, republished |-> FALSE]

(* ============================== initial state =========================== *)

\* the module-level state of monitor.py and app.py, no thread started yet
InitStart ==
    /\ history = [n \in SITES |-> <<>>]
    /\ timestamps = <<>>
    /\ offline_time = [n \in SITES |-> 0]
    /\ oscillation_detected = [n \in SITES |-> FALSE]
    /\ lock = "free"
    /\ LATEST_DATA = EmptyDict
    /\ _thread_started = FALSE
    /\ app_LATEST_DATA = EmptyDict
    /\ _local_latest = EmptyDict
    /\ running = {}
    /\ pc = [t \in Callers \cup Readers |-> "idle"] @@ [t \in Loops |-> "off"]
    /\ current_time = [t \in CycleThreads |-> 0]
    /\ status_dict = [t \in CycleThreads |-> <<>>]
    /\ new_data = [t \in CycleThreads |-> EmptyDict]
    /\ result = [r \in Readers |-> EmptyDict]
    /\ clock = 0
    /\ budget = MaxStartCycles
    /\ calls_left = MaxCalls
    /\ updates = 0
    /\ appended = [n \in SITES |-> <<>>]
    /\ appended_ts = <<>>
    /\ at_begin = [r \in Readers |-> NoCall]
    /\ pending = [t \in CycleThreads |-> <<>>]
    /\ active = [t \in CycleThreads |-> {}]
    /\ probe_resp = [t \in CycleThreads |-> NoResponses]
    /\ probed = [t \in CycleThreads |-> [n \in SITES |-> 0]]

\* the serving process after the import of app.py: its module-level code has
\* called ensure_started() once (app.py:65), which started one monitor_loop
\* thread and set the flag
Init ==
    /\ history = [n \in SITES |-> <<>>]
    /\ timestamps = <<>>
    /\ offline_time = [n \in SITES |-> 0]
    /\ oscillation_detected = [n \in SITES |-> FALSE]
    /\ lock = "free"
    /\ LATEST_DATA = EmptyDict
    /\ _thread_started = TRUE
    /\ app_LATEST_DATA = EmptyDict
    /\ _local_latest = EmptyDict
    /\ running = {"m1"}
    /\ pc = [t \in Callers \cup Readers |-> "idle"]
               @@ [t \in Loops |-> IF t = "m1" THEN "capture" ELSE "off"]
    /\ current_time = [t \in CycleThreads |-> 0]
    /\ status_dict = [t \in CycleThreads |-> <<>>]
    /\ new_data = [t \in CycleThreads |-> EmptyDict]
    /\ result = [r \in Readers |-> EmptyDict]
    /\ clock = 0
    /\ budget = MaxCycles
    /\ calls_left = 0
    /\ updates = 0
    /\ appended = [n \in SITES |-> <<>>]
    /\ appended_ts = <<>>
    /\ at_begin = [r \in Readers |-> NoCall]
    /\ pending = [t \in CycleThreads |-> <<>>]
    /\ active = [t \in CycleThreads |-> {}]
    /\ probe_resp = [t \in CycleThreads |-> NoResponses]
    /\ probed = [t \in CycleThreads |-> [n \in SITES |-> 0]]

storeVars == <<history, timestamps, offline_time, oscillation_detected>>
appVars == <<app_LATEST_DATA, _local_latest>>
localVars == <<current_time, status_dict, new_data>>
logVars == <<updates, appended, appended_ts>>
poolVars == <<pending, active, probe_resp, probed>>

(* ============================ ensure_started ============================ *)

\* "if not _thread_started:" read by caller c
EnsureCheck(c) ==
    /\ pc[c] = "idle"
    /\ calls_left > 0
    /\ calls_left' = calls_left - 1
    /\ pc' = [pc EXCEPT ![c] = IF _thread_started THEN "idle" ELSE "start"]
    /\ UNCHANGED <<storeVars, lock, LATEST_DATA, _thread_started, appVars, poolVars, running,
                   localVars, result, clock, budget, logVars, at_begin>>

\* "t = threading.Thread(target=_background_loop ...); t.start()"
EnsureStart(c) ==
    /\ pc[c] = "start"
    /\ \E m \in Loops \ running :
          /\ running' = running \cup {m}
          /\ pc' = [pc EXCEPT ![c] = "set", ![m] = "capture"]
    /\ UNCHANGED <<storeVars, lock, LATEST_DATA, _thread_started, appVars, poolVars,
                   localVars, result, clock, budget, calls_left, logVars, at_begin>>

\* "_thread_started = True"
EnsureSet(c) ==
    /\ pc[c] = "set"
    /\ _thread_started' = TRUE
    /\ pc' = [pc EXCEPT ![c] = "idle"]
    /\ UNCHANGED <<storeVars, lock, LATEST_DATA, appVars, poolVars, running,
                   localVars, result, clock, budget, calls_left, logVars, at_begin>>

(* ============================ get_status_data =========================== *)

\* get_status_data up to its "with lock:".  "current_dt = datetime.now(...)":
\* every cycle reads a later clock value.  The ThreadPoolExecutor block: every
\* site is probed, check_site returns (nome, 0|1) and never raises, and
\* status_dict gets the results in the order in which the probes complete.
\* Nothing shared is read or written between the two, so they are one step.
CaptureAndProbe(t) ==
    /\ pc[t] = "capture"
    /\ budget > 0
    /\ budget' = budget - 1
    /\ clock' = clock + 1
    /\ current_time' = [current_time EXCEPT ![t] = clock + 1]
    /\ \E o \in Orders, outcome \in [SITES -> {0, 1}] :
          status_dict' = [status_dict EXCEPT ![t] =
              [i \in 1..Len(o) |-> [nome |-> o[i], status |-> outcome[o[i]]]]]
    /\ pc' = [pc EXCEPT ![t] = "lock"]
    /\ UNCHANGED <<storeVars, lock, LATEST_DATA, _thread_started, appVars, poolVars, running,
                   new_data, result, calls_left, logVars, at_begin>>

\* "with lock:" of get_status_data, the acquisition
UpdateAcquire(t) ==
    /\ pc[t] = "lock"
    /\ lock = "free"
    /\ lock' = t
    /\ pc' = [pc EXCEPT ![t] = "update"]
    /\ UNCHANGED <<storeVars, LATEST_DATA, _thread_started, appVars, poolVars, running,
                   localVars, result, clock, budget, calls_left, logVars, at_begin>>

\* variant of CycleTimestamps: the append is inside the loop over the sites
RECURSIVE AppendEach(_, _, _)
AppendEach(ts, items, now) ==
    IF items = <<>> THEN ts
    ELSE AppendEach(Append(Evict(ts), now), Tail(items), now)
CycleTimestamps_PerSite(t) == AppendEach(timestamps, status_dict[t], current_time[t])

\* "if len(timestamps) >= MAX_HISTORY_LEN: timestamps.pop(0)" and
\* "timestamps.append(current_time)", once in the cycle of thread t
CycleTimestamps(t) == Append(Evict(timestamps), current_time[t])

\* "relatorio_quedas = []", "relatorio_oscilacoes = []" and the loop over
\* status_dict.items() of the cycle of thread t
CycleStore(t) ==
    StoreLoop([history |-> history,
               offline_time |-> offline_time,
               oscillation_detected |-> oscillation_detected,
               quedas |-> <<>>,
               oscilacoes |-> <<>>],
              status_dict[t], current_time[t])

\* variant of CycleSnapshot: "timestamps" is copied before the append
CycleSnapshot_StaleTimestamps(t) ==
    CHOOSE d \in {Snapshot(timestamps, st) : st \in {CycleStore(t)}} : TRUE

\* the "return {...}" of the cycle of thread t
CycleSnapshot(t) ==
    CHOOSE d \in {Snapshot(ts, st) : ts \in {CycleTimestamps(t)}, st \in {CycleStore(t)}} :
        TRUE

\* variant of HeldAfterUpdate: the snapshot holds the store's own lists
\* (no ".copy()"), so the pops and appends of a later cycle show in it
HeldAfterUpdate_Shared(d, ts, h) ==
    IF HasKey(d, "timestamps") /\ d.timestamps # <<>>
    THEN [d EXCEPT !.timestamps = ts, !.data = h]
    ELSE d

\* a dict d that some thread or global holds, after a cycle has changed the
\* store's time index to ts and its buffers to h: a snapshot is made of
\* "timestamps.copy()", "history[n].copy()" and of dicts and lists that are
\* local to its cycle, so the store's pops and appends do not reach it
HeldAfterUpdate(d, ts, h) == d

\* variant of Release: leaving the "with lock:" block keeps the lock
Release_Kept(t) == t

\* the lock after thread t has left a "with lock:" block, by its end or by
\* a "return" inside it
Release(t) == "free"

\* the body of "with lock:" of get_status_data up to its return, which
\* releases the lock
Update(t) ==
    /\ pc[t] = "update"
    /\ lock = t
    /\ \E ts \in {CycleTimestamps(t)}, st \in {CycleStore(t)} :
           /\ timestamps' = ts
           /\ history' = st.history
           /\ offline_time' = st.offline_time
           /\ oscillation_detected' = st.oscillation_detected
           /\ new_data' = [u \in CycleThreads |->
                 IF u = t THEN CycleSnapshot(t)
                 ELSE HeldAfterUpdate(new_data[u], ts, st.history)]
           /\ LATEST_DATA' = HeldAfterUpdate(LATEST_DATA, ts, st.history)
           /\ result' = [r \in Readers |-> HeldAfterUpdate(result[r], ts, st.history)]
    /\ lock' = Release(t)
    /\ pc' = [pc EXCEPT ![t] = IF t \in Loops THEN "publock" ELSE "return"]
    /\ updates' = updates + 1
    /\ appended' = [n \in SITES |->
          IF \E i \in 1..Len(status_dict[t]) : status_dict[t][i].nome = n
          THEN LET i == CHOOSE i \in 1..Len(status_dict[t]) : status_dict[t][i].nome = n
               IN  Append(appended[n], status_dict[t][i].status)
          ELSE appended[n]]
    /\ appended_ts' = Append(appended_ts, current_time[t])
    \* the locals of the call are dead after the return
    /\ current_time' = [current_time EXCEPT ![t] = 0]
    /\ status_dict' = [status_dict EXCEPT ![t] = <<>>]
    /\ UNCHANGED <<_thread_started, appVars, poolVars, running,
                   clock, budget, calls_left, at_begin>>

(* ============================ _background_loop ========================== *)

\* "with lock:" of _background_loop, the acquisition
PublishAcquire(t) ==
    /\ t \in Loops
    /\ pc[t] = "publock"
    /\ lock = "free"
    /\ lock' = t
    /\ pc' = [pc EXCEPT ![t] = "publish"]
    /\ UNCHANGED <<storeVars, LATEST_DATA, _thread_started, appVars, poolVars, running,
                   localVars, result, clock, budget, calls_left, logVars, at_begin>>

\* "LATEST_DATA = new_data" and the release of the lock
Publish(t) ==
    /\ t \in Loops
    /\ pc[t] = "publish"
    /\ lock = t
    /\ LATEST_DATA' = new_data[t]
    /\ new_data' = [new_data EXCEPT ![t] = EmptyDict]
    /\ lock' = Release(t)
    /\ pc' = [pc EXCEPT ![t] = "sleep"]
    /\ at_begin' = [r \in Readers |->
          IF pc[r] \in {"idle", "done"} THEN at_begin[r]
          ELSE [at_begin[r] EXCEPT !.republished = TRUE]]
    /\ UNCHANGED <<storeVars, _thread_started, appVars, poolVars, running, current_time,
                   status_dict, result, clock, budget, calls_left, logVars>>

\* get_status_data raises before it takes the lock (the executor cannot be
\* created or a probe cannot be submitted); "except Exception as e: print"
LoopCycleError(t) ==
    /\ t \in Loops
    /\ pc[t] = "capture"
    /\ budget > 0
    /\ budget' = budget - 1
    /\ LATEST_DATA' = LatestAfterError(LATEST_DATA)
    /\ pc' = [pc EXCEPT ![t] = "failed"]
    /\ UNCHANGED <<storeVars, lock, _thread_started, appVars, poolVars, running,
                   localVars, result, clock, calls_left, logVars, at_begin>>

\* "time.sleep(CHECK_INTERVAL)" and back to the top of "while True"; the
\* loop is at "sleep" after a publish and at "failed" after the except clause
Sleep(t) ==
    /\ t \in Loops
    /\ pc[t] \in {"sleep", "failed"}
    /\ pc' = [pc EXCEPT ![t] = "capture"]
    /\ UNCHANGED <<storeVars, lock, LATEST_DATA, _thread_started, appVars, poolVars, running,
                   localVars, result, clock, budget, calls_left, logVars, at_begin>>

(* ====================== _get_current_data (app.py) ====================== *)

\* the two cache tests of _get_current_data and, when both fail, the call
\* of monitor_get_status_data
ReaderBegin(r) ==
    /\ pc[r] = "idle"
    /\ budget > 0
    /\ at_begin' = [at_begin EXCEPT ![r] =
          [published |-> HasKey(LATEST_DATA, "timestamps"),
           no_cycle |-> updates = 0,
           republished |-> FALSE]]
    /\ IF HasKey(app_LATEST_DATA, "timestamps")
       THEN /\ result' = [result EXCEPT ![r] = app_LATEST_DATA]
            /\ pc' = [pc EXCEPT ![r] = "done"]
       ELSE IF HasKey(_local_latest, "timestamps")
       THEN /\ result' = [result EXCEPT ![r] = _local_latest]
            /\ pc' = [pc EXCEPT ![r] = "done"]
       ELSE /\ result' = [result EXCEPT ![r] = EmptyDict]
            /\ pc' = [pc EXCEPT ![r] = "capture"]
    /\ UNCHANGED <<storeVars, lock, LATEST_DATA, _thread_started, appVars, poolVars, running,
                   localVars, clock, budget, calls_left, logVars>>

\* "return monitor_get_status_data()"
ReaderReturn(r) ==
    /\ r \in Readers
    /\ pc[r] = "return"
    /\ result' = [result EXCEPT ![r] = new_data[r]]
    /\ new_data' = [new_data EXCEPT ![r] = EmptyDict]
    /\ pc' = [pc EXCEPT ![r] = "done"]
    /\ UNCHANGED <<storeVars, lock, LATEST_DATA, _thread_started, appVars, poolVars, running,
                   current_time, status_dict, clock, budget, calls_left, logVars, at_begin>>

\* monitor_get_status_data raises: "except Exception: traceback.print_exc()"
\* and the final "return {...}" with the empty lists and maps
ReaderCycleError(r) ==
    /\ r \in Readers
    /\ pc[r] = "capture"
    /\ budget > 0
    /\ budget' = budget - 1
    /\ result' = [result EXCEPT ![r] = EmptySnapshot]
    /\ pc' = [pc EXCEPT ![r] = "done"]
    /\ UNCHANGED <<storeVars, lock, LATEST_DATA, _thread_started, appVars, poolVars, running,
                   localVars, clock, calls_left, logVars, at_begin>>

\* the request is answered; the thread serves the next request
ReaderNext(r) ==
    /\ r \in Readers
    /\ pc[r] = "done"
    /\ pc' = [pc EXCEPT ![r] = "idle"]
    /\ result' = [result EXCEPT ![r] = EmptyDict]
    /\ at_begin' = [at_begin EXCEPT ![r] = NoCall]
    /\ UNCHANGED <<storeVars, lock, LATEST_DATA, _thread_started, appVars, poolVars, running,
                   localVars, clock, budget, calls_left, logVars>>

\* the steps of the cycle threads: the monitor loop and the request threads
Next ==
    \/ \E t \in CycleThreads : CaptureAndProbe(t) \/ UpdateAcquire(t) \/ Update(t)
    \/ \E t \in Loops : PublishAcquire(t) \/ Publish(t) \/ LoopCycleError(t) \/ Sleep(t)
    \/ \E r \in Readers : ReaderBegin(r) \/ ReaderReturn(r) \/ ReaderCycleError(r)
                             \/ ReaderNext(r)

\* the same with callers of ensure_started()
NextStart ==
    \/ \E c \in Callers : EnsureCheck(c) \/ EnsureStart(c) \/ EnsureSet(c)
    \/ Next

\* the serving process: one monitor loop and the request threads
Spec == Init /\ [][Next]_vars

\* the start-up: threads calling ensure_started(), the loops they start, and
\* the request threads
SpecStart == InitStart /\ [][NextStart]_vars

(* ============ get_status_data, the probes followed one by one ========== *)

\* what a site can answer to "_session.get(url, timeout=4)": status 200,
\* another status, or an exception (transport error, timeout)
Responses == {"200", "500", "exception"}

\* a future that holds an exception instead of a result
Raised == 0 - 1

\* variant of check_site: the "except Exception" is missing
check_site_Propagates(resp) ==
    IF resp = "exception" THEN Raised
    ELSE IF resp = "200" THEN 1 ELSE 0

\* the status of "return nome, 1 if r.status_code == 200 else 0" and of
\* "except Exception: return nome, 0"
check_site(resp) ==
    IF resp = "exception" THEN 0
    ELSE IF resp = "200" THEN 1 ELSE 0

\* the order of "for n, u in SITES.items()": the order of the dict literal
SubmitOrder == <<"A", "B">>

\* a worker of the executor is free to begin a queued probe
WorkerFree(act) == Cardinality(act) < max_workers

\* variant of AllDone: the cycle goes on once the queue is empty
AllDone_QueueOnly(pend, act) == pend = <<>>

\* "for fut in as_completed(futures)" is exhausted and the "with" block has
\* shut the executor down: no probe is queued or running
AllDone(pend, act) == pend = <<>> /\ act = {}

\* "current_time = ..." and "ex.submit(check_site, n, u)" for every site
PoolSubmit(t) ==
    /\ pc[t] = "capture"
    /\ budget > 0
    /\ budget' = budget - 1
    /\ clock' = clock + 1
    /\ current_time' = [current_time EXCEPT ![t] = clock + 1]
    /\ pending' = [pending EXCEPT ![t] = SubmitOrder]
    /\ probe_resp' = [probe_resp EXCEPT ![t] = NoResponses]
    /\ probed' = [probed EXCEPT ![t] = [n \in SITES |-> 0]]
    /\ pc' = [pc EXCEPT ![t] = "probing"]
    /\ UNCHANGED <<storeVars, lock, LATEST_DATA, _thread_started, appVars, running,
                   status_dict, new_data, result, calls_left, logVars, at_begin,
                   active>>

\* a free worker takes the first queued probe and calls check_site
ProbeStart(t) ==
    /\ pc[t] = "probing"
    /\ pending[t] # <<>>
    /\ WorkerFree(active[t])
    /\ pending' = [pending EXCEPT ![t] = Tail(pending[t])]
    /\ active' = [active EXCEPT ![t] = active[t] \cup {Head(pending[t])}]
    /\ probed' = [probed EXCEPT ![t][Head(pending[t])] = @ + 1]
    /\ UNCHANGED <<storeVars, lock, LATEST_DATA, _thread_started, appVars, running,
                   localVars, result, clock, budget, calls_left, logVars, at_begin,
                   pc, probe_resp>>

\* check_site of site n ends with the site's answer; as_completed yields the
\* future and "status_dict[nome] = status" stores its result
ProbeFinish(t, n) ==
    /\ pc[t] = "probing"
    /\ n \in active[t]
    /\ \E resp \in Responses :
          /\ probe_resp' = [probe_resp EXCEPT ![t][n] = resp]
          /\ status_dict' = [status_dict EXCEPT ![t] =
                Append(status_dict[t], [nome |-> n, status |-> check_site(resp)])]
    /\ active' = [active EXCEPT ![t] = active[t] \ {n}]
    /\ UNCHANGED <<storeVars, lock, LATEST_DATA, _thread_started, appVars, running,
                   current_time, new_data, result, clock, budget, calls_left, logVars,
                   at_begin, pc, pending, probed>>

\* the end of the "with ThreadPoolExecutor" block.  "fut.result()" raises
\* what check_site raised: the exception leaves get_status_data, to the
\* "except" of _background_loop or of _get_current_data
PoolJoin(t) ==
    /\ pc[t] = "probing"
    /\ AllDone(pending[t], active[t])
    /\ IF \E i \in 1..Len(status_dict[t]) : status_dict[t][i].status = Raised
       THEN /\ status_dict' = [status_dict EXCEPT ![t] = <<>>]
            /\ current_time' = [current_time EXCEPT ![t] = 0]
            /\ IF t \in Loops
               THEN /\ pc' = [pc EXCEPT ![t] = "failed"]
                    /\ LATEST_DATA' = LatestAfterError(LATEST_DATA)
                    /\ result' = result
               ELSE /\ pc' = [pc EXCEPT ![t] = "done"]
                    /\ LATEST_DATA' = LATEST_DATA
                    /\ result' = [result EXCEPT ![t] = EmptySnapshot]
       ELSE /\ pc' = [pc EXCEPT ![t] = "lock"]
            /\ UNCHANGED <<status_dict, current_time, LATEST_DATA, result>>
    /\ UNCHANGED <<storeVars, lock, _thread_started, appVars, running,
                   new_data, clock, budget, calls_left, logVars, at_begin, poolVars>>

\* the serving process after the import of app.py, as Init, with the budget
\* of the cycles whose probes are followed one by one
InitPool ==
    /\ history = [n \in SITES |-> <<>>]
    /\ timestamps = <<>>
    /\ offline_time = [n \in SITES |-> 0]
    /\ oscillation_detected = [n \in SITES |-> FALSE]
    /\ lock = "free"
    /\ LATEST_DATA = EmptyDict
    /\ _thread_started = TRUE
    /\ app_LATEST_DATA = EmptyDict
    /\ _local_latest = EmptyDict
    /\ running = {"m1"}
    /\ pc = [t \in Callers \cup Readers |-> "idle"]
               @@ [t \in Loops |-> IF t = "m1" THEN "capture" ELSE "off"]
    /\ current_time = [t \in CycleThreads |-> 0]
    /\ status_dict = [t \in CycleThreads |-> <<>>]
    /\ new_data = [t \in CycleThreads |-> EmptyDict]
    /\ result = [r \in Readers |-> EmptyDict]
    /\ clock = 0
    /\ budget = MaxPoolCycles
    /\ calls_left = 0
    /\ updates = 0
    /\ appended = [n \in SITES |-> <<>>]
    /\ appended_ts = <<>>
    /\ at_begin = [r \in Readers |-> NoCall]
    /\ pending = [t \in CycleThreads |-> <<>>]
    /\ active = [t \in CycleThreads |-> {}]
    /\ probe_resp = [t \in CycleThreads |-> NoResponses]
    /\ probed = [t \in CycleThreads |-> [n \in SITES |-> 0]]

NextPool ==
    \/ \E t \in CycleThreads :
          \/ PoolSubmit(t) \/ ProbeStart(t) \/ PoolJoin(t)
          \/ \E n \in SITES : ProbeFinish(t, n)
          \/ UpdateAcquire(t) \/ Update(t)
    \/ \E t \in Loops : PublishAcquire(t) \/ Publish(t) \/ Sleep(t)
    \/ \E r \in Readers : ReaderBegin(r) \/ ReaderReturn(r) \/ ReaderNext(r)

\* the serving process, with every probe of a cycle a step of its own
SpecPool == InitPool /\ [][NextPool]_vars

(* ====== the "with lock:" block of get_status_data on any outcome map ===== *)

\* get_status_data up to its "with lock:", leaving in status_dict any map
\* from some of the sites to 0|1: also a map that has no outcome for a site,
\* which the probes of this program never leave (check_site returns for
\* every site)
CaptureAnyMap(t) ==
    /\ pc[t] = "capture"
    /\ budget > 0
    /\ budget' = budget - 1
    /\ clock' = clock + 1
    /\ current_time' = [current_time EXCEPT ![t] = clock + 1]
    /\ \E S \in SUBSET SITES : \E outcome \in [S -> {0, 1}] :
          \E o \in {q \in [1..Cardinality(S) -> S] :
                       \A i, j \in 1..Cardinality(S) : i # j => q[i] # q[j]} :
             status_dict' = [status_dict EXCEPT ![t] =
                 [i \in 1..Cardinality(S) |-> [nome |-> o[i], status |-> outcome[o[i]]]]]
    /\ pc' = [pc EXCEPT ![t] = "lock"]
    /\ UNCHANGED <<storeVars, lock, LATEST_DATA, _thread_started, appVars, poolVars,
                   running, new_data, result, calls_left, logVars, at_begin>>

NextUpdate ==
    \/ \E t \in CycleThreads : CaptureAnyMap(t) \/ UpdateAcquire(t) \/ Update(t)
    \/ \E t \in Loops : PublishAcquire(t) \/ Publish(t) \/ Sleep(t)

\* the history update of the loop, fed with every outcome map
SpecUpdate == Init /\ [][NextUpdate]_vars

(* ================= the serving process, threads scheduled =============== *)

\* the serving process after the import of app.py, as Init, with the budget
\* of the cycles of the scheduled threads
InitLive ==
    /\ history = [n \in SITES |-> <<>>]
    /\ timestamps = <<>>
    /\ offline_time = [n \in SITES |-> 0]
    /\ oscillation_detected = [n \in SITES |-> FALSE]
    /\ lock = "free"
    /\ LATEST_DATA = EmptyDict
    /\ _thread_started = TRUE
    /\ app_LATEST_DATA = EmptyDict
    /\ _local_latest = EmptyDict
    /\ running = {"m1"}
    /\ pc = [t \in Callers \cup Readers |-> "idle"]
               @@ [t \in Loops |-> IF t = "m1" THEN "capture" ELSE "off"]
    /\ current_time = [t \in CycleThreads |-> 0]
    /\ status_dict = [t \in CycleThreads |-> <<>>]
    /\ new_data = [t \in CycleThreads |-> EmptyDict]
    /\ result = [r \in Readers |-> EmptyDict]
    /\ clock = 0
    /\ budget = MaxLiveCycles
    /\ calls_left = 0
    /\ updates = 0
    /\ appended = [n \in SITES |-> <<>>]
    /\ appended_ts = <<>>
    /\ at_begin = [r \in Readers |-> NoCall]
    /\ pending = [t \in CycleThreads |-> <<>>]
    /\ active = [t \in CycleThreads |-> {}]
    /\ probe_resp = [t \in CycleThreads |-> NoResponses]
    /\ probed = [t \in CycleThreads |-> [n \in SITES |-> 0]]

\* what the interpreter's scheduling gives every started thread: a thread
\* that can take its next step takes it.  The probes end (every request has
\* "timeout=4"), "time.sleep" ends, a block under the lock is straight-line
\* code, and "with lock:" returns once the lock stays free.  Nothing is
\* assumed of the arrival of requests (ReaderBegin, ReaderNext).
LoopSteps(t) ==
    \/ CaptureAndProbe(t) \/ LoopCycleError(t) \/ UpdateAcquire(t) \/ Update(t)
    \/ PublishAcquire(t) \/ Publish(t) \/ Sleep(t)
RequestSteps(r) ==
    \/ CaptureAndProbe(r) \/ ReaderCycleError(r) \/ UpdateAcquire(r) \/ Update(r)
    \/ ReaderReturn(r)
Fairness ==
    /\ \A t \in Loops : WF_vars(LoopSteps(t))
    /\ \A r \in Readers : WF_vars(RequestSteps(r))

\* the serving process with its threads scheduled
SpecLive == InitLive /\ [][Next]_vars /\ Fairness

(* ================================ claims ================================ *)

Last(seq) == seq[Len(seq)]
Min(a, b) == IF a <= b THEN a ELSE b
\* the last min(Len(seq), k) elements of seq, in order
LastK(seq, k) == SubSeq(seq, Len(seq) - Min(Len(seq), k) + 1, Len(seq))
\* a step that completes a history update, and the thread that makes it
IsUpdate == updates' = updates + 1
\* every snapshot some thread or global holds that a cycle produced
CycleSnapshots ==
    {d \in {LATEST_DATA} \cup {new_data[t] : t \in CycleThreads}
                         \cup {result[r] : r \in Readers} :
        HasKey(d, "timestamps") /\ d.timestamps # <<>>}
HasEvent(events, n) == \E i \in 1..Len(events) : events[i].nome = n

\* C1: however many ensure_started() calls are made, by however many
\* threads, at most one monitoring loop is ever started.  (Stated as the
\* claim states it; the code starts two.)
C1_ExactlyOneLoop == Cardinality(running) <= 1

\* C2: a reader whose call begins after a publish and ends before the next
\* publish returns a copy of the snapshot that is latest.
C2_ReaderGetsLatest ==
    \A r \in Readers :
        (pc[r] = "done" /\ at_begin[r].published /\ ~at_begin[r].republished)
            => result[r] = LATEST_DATA

\* C3: a reader whose call begins before any cycle has completed gets the
\* empty snapshot.
C3_EmptyBeforeFirstCycle ==
    \A r \in Readers :
        (pc[r] = "done" /\ at_begin[r].no_cycle) => result[r] = EmptySnapshot

\* C4: in the store and in every snapshot a cycle produced, every site's
\* buffer is as long as the time index, and neither is longer than the
\* capacity.
C4_LengthsEqualAndCapped ==
    /\ Len(timestamps) <= MAX_HISTORY_LEN
    /\ \A n \in SITES : Len(history[n]) = Len(timestamps)
    /\ \A d \in CycleSnapshots :
          /\ Len(d.timestamps) <= MAX_HISTORY_LEN
          /\ \A n \in SITES : Len(d.data[n]) = Len(d.timestamps)
C4_Witness ==
    /\ updates > MAX_HISTORY_LEN
    /\ Len(timestamps) = MAX_HISTORY_LEN
    /\ HasKey(LATEST_DATA, "timestamps")
    /\ Len(LATEST_DATA.timestamps) = MAX_HISTORY_LEN

\* C5: after n updates every buffer, and the time index, holds exactly the
\* last min(n, capacity) values appended to it, in the order of appending.
C5_FifoLastN ==
    /\ Len(appended_ts) = updates
    /\ timestamps = LastK(appended_ts, MAX_HISTORY_LEN)
    /\ \A n \in SITES :
          /\ Len(appended[n]) = updates
          /\ history[n] = LastK(appended[n], MAX_HISTORY_LEN)
C5_Witness ==
    /\ updates > MAX_HISTORY_LEN
    /\ appended["A"][1] # appended["A"][updates]
    /\ history["A"][1] # history["A"][2]

\* C6: in every snapshot the colour of a site is decided by the last two
\* samples of its series: with fewer than two samples green if the latest
\* is up, else red; with two or more, yellow if the last two differ, else
\* green if the latest is up and red if it is down.
C6_ColorOfLastTwo ==
    \A d \in CycleSnapshots : \A n \in SITES :
        LET h == d.data[n]
            up == Last(h) = 1
        IN  d.status_colors[n] =
               IF Len(h) >= 2 /\ Last(h) # h[Len(h) - 1] THEN "yellow"
               ELSE IF up THEN "green" ELSE "red"
C6_Witness ==
    /\ HasKey(LATEST_DATA, "timestamps")
    /\ LATEST_DATA.data["A"] = <<1, 0>>
    /\ LATEST_DATA.status_colors["A"] = "yellow"
    /\ LATEST_DATA.data["B"] = <<0, 0>>
    /\ LATEST_DATA.status_colors["B"] = "red"

\* C7: in every update, a site's downtime counter becomes 0 if its sample is
\* up and its previous value plus 5 if its sample is down.
C7_DowntimeStep ==
    [][IsUpdate =>
          \A n \in SITES :
             offline_time'[n] =
                IF Last(appended'[n]) = 1 THEN 0 ELSE offline_time[n] + 5]_vars
C7_Witness ==
    /\ appended["A"] = <<0, 0>> /\ offline_time["A"] = 10
    /\ appended["B"] = <<0, 1>> /\ offline_time["B"] = 0

\* C8: in every update, a site's oscillation flag is true, and the update's
\* snapshot has a flap event for the site, exactly when the site had a
\* previous sample and it differs from the new one.
C8_FlapIffChanged ==
    [][IsUpdate =>
          \A n \in SITES :
             LET flap == history[n] # <<>> /\ Last(history[n]) # Last(history'[n])
             IN  /\ oscillation_detected'[n] = flap
                 /\ HasEvent(new_data'[lock].oscilacoes, n) = flap]_vars
C8_Witness ==
    /\ updates > MAX_HISTORY_LEN
    /\ oscillation_detected["A"]
    /\ ~oscillation_detected["B"]
    /\ \E t \in CycleThreads :
          /\ HasKey(new_data[t], "timestamps")
          /\ Len(new_data[t].timestamps) = MAX_HISTORY_LEN
          /\ HasEvent(new_data[t].oscilacoes, "A")
          /\ ~HasEvent(new_data[t].oscilacoes, "B")

\* C9: in every update that leaves a site's downtime counter at 5 or more,
\* the update's snapshot has an outage event for the site carrying the
\* counter's value; and when the counter was already at 5 or more, the value
\* is greater than the one carried by the update before.
C9_OutageEveryCycle ==
    [][IsUpdate =>
          \A n \in SITES :
             offline_time'[n] >= 5 =>
                /\ \E i \in 1..Len(new_data'[lock].quedas) :
                      /\ new_data'[lock].quedas[i].nome = n
                      /\ new_data'[lock].quedas[i].tempo = offline_time'[n]
                /\ offline_time[n] >= 5 => offline_time'[n] > offline_time[n]]_vars
C9_Witness ==
    /\ HasKey(LATEST_DATA, "timestamps")
    /\ \E i \in 1..Len(LATEST_DATA.quedas) :
          LATEST_DATA.quedas[i].nome = "A" /\ LATEST_DATA.quedas[i].tempo = 10

\* C10: a cycle of the loop that raises leaves the latest snapshot as it was.
C10_ErrorKeepsLatest ==
    [][(\E t \in Loops : pc[t] = "capture" /\ pc'[t] = "failed")
          => LATEST_DATA' = LATEST_DATA]_vars
C10_Witness ==
    /\ \E t \in Loops : pc[t] = "failed"
    /\ HasKey(LATEST_DATA, "timestamps")
    /\ Len(LATEST_DATA.timestamps) = 1

\* the number of consecutive down samples of log that end at position k
RECURSIVE DownRun(_, _)
DownRun(log, k) == IF k = 0 \/ log[k] = 1 THEN 0 ELSE 1 + DownRun(log, k - 1)
\* the events of a list, without their order in the list
EventSet(events) ==
    {[data |-> events[i].data, nome |-> events[i].nome, tempo |-> events[i].tempo] :
        i \in 1..Len(events)}
\* d is, in all five fields, what the k-th update of the store produced,
\* read off the log of the samples and timestamps appended
OfCycle(d, k) ==
    /\ d.timestamps = LastK(SubSeq(appended_ts, 1, k), MAX_HISTORY_LEN)
    /\ \A n \in SITES :
          /\ d.data[n] = LastK(SubSeq(appended[n], 1, k), MAX_HISTORY_LEN)
          /\ d.status_colors[n] =
                IF k >= 2 /\ appended[n][k] # appended[n][k - 1] THEN "yellow"
                ELSE IF appended[n][k] = 1 THEN "green" ELSE "red"
    /\ EventSet(d.quedas) =
          {[data |-> appended_ts[k], nome |-> n, tempo |-> 5 * DownRun(appended[n], k)] :
              n \in {m \in SITES : appended[m][k] = 0}}
    /\ EventSet(d.oscilacoes) =
          {[data |-> appended_ts[k], nome |-> n, tempo |-> "-"] :
              n \in {m \in SITES : k >= 2 /\ appended[m][k] # appended[m][k - 1]}}
    /\ Len(d.quedas) = Cardinality(EventSet(d.quedas))
    /\ Len(d.oscilacoes) = Cardinality(EventSet(d.oscilacoes))

\* C11: what a reader's call returns is either the empty snapshot or, in all
\* five fields together, the snapshot of one single update of the store.
C11_ReaderGetsOneCycle ==
    \A r \in Readers :
        pc[r] = "done" =>
            \/ /\ result[r].timestamps = <<>> /\ result[r].data = <<>>
               /\ result[r].status_colors = <<>>
               /\ result[r].quedas = <<>> /\ result[r].oscilacoes = <<>>
            \/ \E k \in 1..updates : OfCycle(result[r], k)
C11_Witness ==
    \E r \in Readers :
        /\ pc[r] = "done"
        /\ at_begin[r].republished
        /\ updates = 3
        /\ OfCycle(result[r], 2)
        /\ result[r].quedas # <<>>
        /\ result[r].oscilacoes # <<>>

C13_OnlyLoopChangesStore ==
    [][storeVars' # storeVars => lock \in Loops]_vars

\* C14: at most one cycle is in progress at any time.
InCycle(t) == pc[t] \in {"probing", "lock", "update", "publock", "publish", "return"}
C14_CyclesNeverOverlap ==
    Cardinality({t \in CycleThreads : InCycle(t)}) <= 1

\* C18: an update appends the cycle's timestamp to the time index once,
\* and every outage and flap event of its snapshot carries that timestamp,
\* which is the last entry of the snapshot's timestamps.
C18_OneTimestampPerCycle ==
    [][IsUpdate =>
          LET now == current_time[lock]
              d == new_data'[lock]
          IN  /\ timestamps' = LastK(Append(timestamps, now), MAX_HISTORY_LEN)
              /\ Last(d.timestamps) = now
              /\ \A i \in 1..Len(d.quedas) : d.quedas[i].data = now
              /\ \A i \in 1..Len(d.oscilacoes) : d.oscilacoes[i].data = now]_vars
C18_Witness ==
    /\ updates > MAX_HISTORY_LEN
    /\ HasKey(LATEST_DATA, "timestamps")
    /\ Len(LATEST_DATA.timestamps) = MAX_HISTORY_LEN
    /\ Len(LATEST_DATA.quedas) = 2
    /\ Len(LATEST_DATA.oscilacoes) = 1
    /\ LATEST_DATA.quedas[2].data = Last(LATEST_DATA.timestamps)
    /\ LATEST_DATA.oscilacoes[1].data = Last(LATEST_DATA.timestamps)

\* C19: the time index holds the timestamps in the order in which the cycles
\* captured them (every capture reads a later clock value).
C19_TimeIndexOrdered ==
    \A i, j \in 1..Len(timestamps) : i < j => timestamps[i] < timestamps[j]

\* the outcome the claims give to an answer: up for status 200, down for
\* any other status and for a transport error or timeout
OutcomeOf(resp) == IF resp = "200" THEN 1 ELSE 0

\* C15: a probe that fails gives the outcome down and raises nothing to the
\* cycle: whatever the sites answer, every outcome stored is the outcome of
\* the site's answer, no cycle ends in the except clause, and the snapshot
\* the cycle returns has that outcome as the site's latest sample.
C15_ProbeFailureIsDown ==
    \A t \in CycleThreads :
        /\ pc[t] # "failed"
        /\ \A i \in 1..Len(status_dict[t]) :
              status_dict[t][i].status = OutcomeOf(probe_resp[t][status_dict[t][i].nome])
        /\ pc[t] \in {"publock", "return"} =>
              /\ HasKey(new_data[t], "timestamps")
              /\ \A n \in SITES : Last(new_data[t].data[n]) = OutcomeOf(probe_resp[t][n])
        /\ (t \in Readers /\ pc[t] = "done") => result[t].timestamps # <<>>
C15_Witness ==
    /\ pc["m1"] = "publock"
    /\ updates = 2
    /\ probe_resp["m1"] = [n \in SITES |-> IF n = "A" THEN "exception" ELSE "500"]
    /\ new_data["m1"].data["A"] = <<1, 0>>
    /\ new_data["m1"].data["B"] = <<0, 0>>

\* C16: a thread is at or in the history update of its cycle only when no
\* probe of that cycle is queued or running, and the outcome map then has
\* one outcome for each site.
C16_UpdateAfterAllProbes ==
    \A t \in CycleThreads :
        pc[t] \in {"lock", "update"} =>
            /\ pending[t] = <<>>
            /\ active[t] = {}
            /\ \A n \in SITES : probed[t][n] = 1
            /\ Len(status_dict[t]) = Cardinality(SITES)
            /\ {status_dict[t][i].nome : i \in 1..Len(status_dict[t])} = SITES
C16_Witness ==
    /\ pc["m1"] = "update"
    /\ pc["r1"] = "probing"
    /\ active["r1"] # {}
    /\ Len(status_dict["m1"]) = 2
    /\ status_dict["m1"][1].status # status_dict["m1"][2].status

\* C17: at most max_workers probes execute at any moment, and at the end of
\* the probing every site was probed once.
C17_AtMostMaxWorkersProbes ==
    /\ Cardinality({<<t, n>> \in CycleThreads \X SITES : n \in active[t]}) <= max_workers
    /\ \A t \in CycleThreads : pc[t] = "lock" => \A n \in SITES : probed[t][n] = 1

C21_LoopKeepsRunning ==
    /\ \A t \in Loops :
          (t \in running /\ pc[t] # "capture") ~> (pc[t] = "capture")
    /\ \A t \in Loops :
          (pc[t] = "capture" /\ budget > 0) ~> (pc[t] # "capture" \/ budget = 0)
    /\ \A r \in Readers : (pc[r] \in {"lock", "update"}) ~> (pc[r] = "return")
C21_Witness ==
    /\ pc["m1"] = "lock"
    /\ HasKey(LATEST_DATA, "timestamps")
    /\ updates = 1

\* the outcomes of items as they are iterated when the probes complete in
\* the order o
Reordered(items, o) ==
    [i \in 1..Len(o) |->
        CHOOSE it \in {items[j] : j \in 1..Len(items)} : it.nome = o[i]]

\* C22: the result of a cycle does not depend on the order in which its
\* probes completed: with the same outcomes in any other completion order,
\* the update gives the same buffers, downtime counters and oscillation
\* flags, the same series and status colours in its snapshot, and the same
\* sets of outage and flap events.
C22_CompletionOrderIrrelevant ==
    [][IsUpdate =>
          \A o \in Orders :
             \E st \in {StoreLoop([history |-> history,
                                   offline_time |-> offline_time,
                                   oscillation_detected |-> oscillation_detected,
                                   quedas |-> <<>>,
                                   oscilacoes |-> <<>>],
                                  Reordered(status_dict[lock], o),
                                  current_time[lock])} :
                /\ history' = st.history
                /\ offline_time' = st.offline_time
                /\ oscillation_detected' = st.oscillation_detected
                /\ new_data'[lock].data = st.history
                /\ new_data'[lock].status_colors =
                      [n \in SITES |-> get_status_color(st.history[n])]
                /\ EventSet(new_data'[lock].quedas) = EventSet(st.quedas)
                /\ EventSet(new_data'[lock].oscilacoes) = EventSet(st.oscilacoes)]_vars
C22_Witness ==
    /\ HasKey(LATEST_DATA, "timestamps")
    /\ Len(LATEST_DATA.oscilacoes) = 1
    /\ LATEST_DATA.oscilacoes[1].nome = "A"
    /\ Len(LATEST_DATA.quedas) = 2
    /\ LATEST_DATA.quedas[1].nome = "B"
    /\ LATEST_DATA.quedas[2].nome = "A"

\* C23: in every snapshot a cycle produced, a site's colour is yellow exactly
\* when the snapshot has a flap event for the site.
C23_YellowIffFlapEvent ==
    \A d \in CycleSnapshots : \A n \in SITES :
        (d.status_colors[n] = "yellow") <=> HasEvent(d.oscilacoes, n)
C23_Witness ==
    /\ updates > MAX_HISTORY_LEN
    /\ HasKey(LATEST_DATA, "timestamps")
    /\ Len(LATEST_DATA.timestamps) = MAX_HISTORY_LEN
    /\ LATEST_DATA.status_colors["A"] = "yellow"
    /\ Last(LATEST_DATA.data["A"]) = 1
    /\ HasEvent(LATEST_DATA.oscilacoes, "A")
    /\ LATEST_DATA.status_colors["B"] = "red"
    /\ ~HasEvent(LATEST_DATA.oscilacoes, "B")

\* C24: after every update a site's downtime counter is 0 exactly when its
\* latest sample is up (or it has no sample yet) and a positive multiple of
\* 5 when it is down; and every snapshot a cycle produced has an outage event
\* for a site exactly when the site's latest sample in it is down.
C24_CounterFollowsLastSample ==
    /\ \A n \in SITES :
          /\ (offline_time[n] = 0) <=> (history[n] = <<>> \/ Last(history[n]) = 1)
          /\ offline_time[n] >= 0
          /\ offline_time[n] % 5 = 0
    /\ \A d \in CycleSnapshots : \A n \in SITES :
          HasEvent(d.quedas, n) <=> (Last(d.data[n]) = 0)
C24_Witness ==
    /\ HasKey(LATEST_DATA, "timestamps")
    /\ LATEST_DATA.data["A"] = <<0, 0>>
    /\ LATEST_DATA.data["B"] = <<0, 1>>
    /\ HasEvent(LATEST_DATA.quedas, "A")
    /\ ~HasEvent(LATEST_DATA.quedas, "B")
    /\ history = LATEST_DATA.data
    /\ offline_time["A"] = 10
    /\ offline_time["B"] = 0

====
